---- MODULE Spec2Model ----
(***************************************************************************)
(* Model of scripts/build_extension.py: the extension-packaging pipeline   *)
(* (main and the functions it calls) over an explicit file system.         *)
(*                                                                         *)
(* A file name is a sequence of tokens (<<"A", ".whl">>), so that the      *)
(* suffix, prefix and substring tests of the script (glob("*.whl"),        *)
(* glob("batoms-*.zip"), `platform_string in name`) are computed on the    *)
(* name.  A path is a sequence of names, relative to the working           *)
(* directory <<>>.                                                         *)
(***************************************************************************)
EXTENDS Integers, Sequences, FiniteSets, TLC

VARIABLES
    fs,      \* the file system: [dirs: set of paths, files: path -> content]
    argv,    \* the parsed command line of main / the arguments of a direct call
    host,    \* platform.system() and platform.machine() of the host
    pc,      \* the statement of main (or of the calling harness) to run next
    snap,    \* existing_packages, the local of build_wheels
    pip,     \* the status WheelCommand.main returned ("none" before it ran)
    ret,     \* what the last call returned or raised
    trace,   \* the calls made so far, in order, each with how it ended
    status,  \* the exit status of the process ("running" where no process is run)
    built,   \* the archives the host's extension build command wrote
    registry,\* the host's add-ons: importable name -> loaded_state
    proxy    \* the _BatomsProxy object: _module and _resolved_name

vars == <<fs, argv, host, pc, snap, pip, ret, trace, status, built, registry, proxy>>

----------------------------------------------------------------------------
(* Bounds of the model. *)

MaxExtras == 2      \* length of the --extra-wheels list
MaxDirs == 2        \* length of the list given to clear_dirs
MaxCalls == 2       \* direct calls of one function in a row
MaxPkgs == 2        \* packages of the dependency snapshot

----------------------------------------------------------------------------
(* Sequences and functions. *)

Last(s) == s[Len(s)]

IsPrefix(d, p) == Len(d) <= Len(p) /\ SubSeq(p, 1, Len(d)) = d

Contains(s, t) ==
    \E i \in 0..(Len(s) - Len(t)) : SubSeq(s, i + 1, i + Len(t)) = t

Restrict(f, S) == [x \in S |-> f[x]]

Get(d, k, default) == IF k \in DOMAIN d THEN d[k] ELSE default

EmptyDict == <<>>

RECURSIVE SelectIdx(_, _)
SelectIdx(s, keep) ==
    IF s = <<>> THEN <<>>
    ELSE LET n == Len(s)
             front == SelectIdx(SubSeq(s, 1, n - 1), keep)
         IN IF n \in keep THEN Append(front, s[n]) ELSE front

----------------------------------------------------------------------------
(* The file system (pathlib.Path and shutil). *)

EmptyFS == [dirs |-> {<<>>}, files |-> <<>>]

Parent(p) == SubSeq(p, 1, Len(p) - 1)

Ancestors(p) == {SubSeq(p, 1, k) : k \in 0..Len(p)}

IsDir(f, p) == p \in f.dirs

IsFile(f, p) == p \in DOMAIN f.files

PathExists(f, p) == IsDir(f, p) \/ IsFile(f, p)

Entries(f, d) ==
    {p \in f.dirs \cup DOMAIN f.files : Len(p) = Len(d) + 1 /\ IsPrefix(d, p)}

IsEmptyDir(f, d) == IsDir(f, d) /\ Entries(f, d) = {}

Mkdir(f, d) == [f EXCEPT !.dirs = @ \cup Ancestors(d)]

Rmtree(f, d) ==
    [dirs  |-> {p \in f.dirs : ~IsPrefix(d, p)},
     files |-> Restrict(f.files, {p \in DOMAIN f.files : ~IsPrefix(d, p)})]

Unlink(f, S) == [f EXCEPT !.files = Restrict(@, DOMAIN @ \ S)]

WriteFile(f, p, c) ==
    [f EXCEPT !.files = [q \in DOMAIN @ \cup {p} |-> IF q = p THEN c ELSE @[q]]]

Rebase(p, src, dst) == dst \o SubSeq(p, Len(src) + 1, Len(p))

Copytree(f, src, dst) ==
    LET ds == {p \in f.dirs : IsPrefix(src, p)}
        fl == {p \in DOMAIN f.files : IsPrefix(src, p)}
        nf == {Rebase(p, src, dst) : p \in fl}
        from(q) == CHOOSE p \in fl : Rebase(p, src, dst) = q
    IN [dirs  |-> f.dirs \cup Ancestors(dst) \cup {Rebase(p, src, dst) : p \in ds},
        files |-> [q \in DOMAIN f.files \cup nf |->
                      IF q \in nf THEN f.files[from(q)] ELSE f.files[q]]]

GlobWhl(f, d) == {p \in Entries(f, d) : IsFile(f, p) /\ Last(Last(p)) = ".whl"}

GlobBatomsZip(f, d) ==
    {p \in Entries(f, d) :
        /\ IsFile(f, p)
        /\ Len(Last(p)) >= 3
        /\ SubSeq(Last(p), 1, 2) = <<"batoms", "-">>
        /\ Last(Last(p)) = ".zip"}

----------------------------------------------------------------------------
(* get_platform_string *)

Systems == {"Linux", "Darwin", "Windows", "Microsoft", "FreeBSD", "Java", ""}

Machines == {"x86_64", "arm64", "AMD64", "aarch64", "i386", "ppc64le", ""}

Connectors == {"-", "_"}

get_platform_string_any_machine(h, connector) ==
    IF h.system = "Linux" THEN <<"linux", connector, "x64">>
    ELSE IF h.system = "Darwin"
    THEN (IF h.machine = "x86_64" THEN <<"macos", connector, "x64">>
          ELSE <<"macos", connector, "arm64">>)
    ELSE IF h.system \in {"Windows", "Microsoft"}
    THEN <<"windows", connector, "x64">>
    ELSE <<"unsupported">>

get_platform_string(h, connector) ==
    IF h.system = "Linux" /\ h.machine = "x86_64"
    THEN <<"linux", connector, "x64">>
    ELSE IF h.system = "Darwin"
    THEN (IF h.machine = "x86_64" THEN <<"macos", connector, "x64">>
          ELSE <<"macos", connector, "arm64">>)
    ELSE IF h.system \in {"Windows", "Microsoft"}
    THEN <<"windows", connector, "x64">>
    ELSE <<"unsupported">>

----------------------------------------------------------------------------
(* get_installed_packages and generate_updated_pyproject *)

PackagingTools == {"pip", "wheel", "setuptools", "distribute"}

\* freeze() yields "name==version" lines; a line is the pair <<name, version>>
get_installed_packages(frozen) ==
    SelectIdx(frozen, {i \in 1..Len(frozen) : frozen[i][1] \notin PackagingTools})

Requirement(pkg) == <<pkg[1], "==", pkg[2]>>

Requirements(existing_packages) ==
    [i \in 1..Len(existing_packages) |-> Requirement(existing_packages[i])]

HasGroup(doc) ==
    "blender-extension" \in
        DOMAIN Get(Get(doc, "project", EmptyDict), "optional-dependencies", EmptyDict)

generate_updated_pyproject_whole_table(f, pyproject_path, existing_packages) ==
    IF ~IsFile(f, pyproject_path)
    THEN [err |-> "FileNotFoundError", doc |-> EmptyDict]
    ELSE LET pyproject == f.files[pyproject_path].doc
         IN IF ~HasGroup(pyproject)
            THEN [err |-> "ValueError", doc |-> EmptyDict]
            ELSE [err |-> "ok",
                  doc |-> [pyproject EXCEPT !["project"]["optional-dependencies"] =
                              [g \in {"blender-extension"} |->
                                  Requirements(existing_packages)]]]

generate_updated_pyproject(f, pyproject_path, existing_packages) ==
    IF ~IsFile(f, pyproject_path)
    THEN [err |-> "FileNotFoundError", doc |-> EmptyDict]
    ELSE LET pyproject == f.files[pyproject_path].doc
         IN IF ~HasGroup(pyproject)
            THEN [err |-> "ValueError", doc |-> EmptyDict]
            ELSE [err |-> "ok",
                  doc |-> [pyproject EXCEPT
                              !["project"]["optional-dependencies"]["blender-extension"] =
                                  Requirements(existing_packages)]]

----------------------------------------------------------------------------
(* merge_wheels *)

WheelCount(f, d) == Cardinality(GlobWhl(f, d))

\* the inner loop of the merge: the wheels of extra_dir not yet in wheels_dir
CopyNew(f, wheels_dir, extra_dir) ==
    LET new == {w \in GlobWhl(f, extra_dir) :
                   ~PathExists(f, wheels_dir \o <<Last(w)>>)}
        tgt == {wheels_dir \o <<Last(w)>> : w \in new}
        from(q) == CHOOSE w \in new : Last(w) = Last(q)
    IN [f EXCEPT !.files = [q \in DOMAIN @ \cup tgt |->
                               IF q \in tgt THEN @[from(q)] ELSE @[q]]]

\* shutil.copy2 of every wheel of extra_dir, present in wheels_dir or not
CopyAll(f, wheels_dir, extra_dir) ==
    LET all == GlobWhl(f, extra_dir)
        tgt == {wheels_dir \o <<Last(w)>> : w \in all}
        from(q) == CHOOSE w \in all : Last(w) = Last(q)
    IN [f EXCEPT !.files = [q \in DOMAIN @ \cup tgt |->
                               IF q \in tgt THEN @[from(q)] ELSE @[q]]]

RECURSIVE MergeLoop(_, _, _)
MergeLoop(f, wheels_dir, extra_wheels_dirs) ==
    IF extra_wheels_dirs = <<>> THEN f
    ELSE MergeLoop(CopyNew(f, wheels_dir, Head(extra_wheels_dirs)),
                   wheels_dir, Tail(extra_wheels_dirs))

RECURSIVE OverwriteLoop(_, _, _)
OverwriteLoop(f, wheels_dir, extra_wheels_dirs) ==
    IF extra_wheels_dirs = <<>> THEN f
    ELSE OverwriteLoop(CopyAll(f, wheels_dir, Head(extra_wheels_dirs)),
                       wheels_dir, Tail(extra_wheels_dirs))

\* a merge that validates each directory just before copying from it
RECURSIVE InterleavedLoop(_, _, _, _)
InterleavedLoop(f, wheels_dir, extra_wheels_dirs, num_current_wheels) ==
    IF extra_wheels_dirs = <<>> THEN [err |-> "ok", fs |-> f]
    ELSE LET extra_dir == Head(extra_wheels_dirs)
         IN IF ~PathExists(f, extra_dir)
            THEN [err |-> "FileNotFoundError", fs |-> f]
            ELSE IF WheelCount(f, extra_dir) # num_current_wheels
            THEN [err |-> "ValueError", fs |-> f]
            ELSE InterleavedLoop(CopyNew(f, wheels_dir, extra_dir), wheels_dir,
                                 Tail(extra_wheels_dirs), num_current_wheels)

merge_wheels_interleaved(f, wheels_dir, extra_wheels_dirs) ==
    InterleavedLoop(f, wheels_dir, extra_wheels_dirs, WheelCount(f, wheels_dir))

merge_wheels_overwrite(f, wheels_dir, extra_wheels_dirs) ==
    IF \E i \in 1..Len(extra_wheels_dirs) : ~PathExists(f, extra_wheels_dirs[i])
    THEN [err |-> "FileNotFoundError", fs |-> f]
    ELSE IF \E i \in 1..Len(extra_wheels_dirs) :
                WheelCount(f, extra_wheels_dirs[i]) # WheelCount(f, wheels_dir)
    THEN [err |-> "ValueError", fs |-> f]
    ELSE [err |-> "ok", fs |-> OverwriteLoop(f, wheels_dir, extra_wheels_dirs)]

merge_wheels_unchecked(f, wheels_dir, extra_wheels_dirs) ==
    IF \E i \in 1..Len(extra_wheels_dirs) : ~PathExists(f, extra_wheels_dirs[i])
    THEN [err |-> "FileNotFoundError", fs |-> f]
    ELSE [err |-> "ok", fs |-> MergeLoop(f, wheels_dir, extra_wheels_dirs)]

merge_wheels(f, wheels_dir, extra_wheels_dirs) ==
    IF \E i \in 1..Len(extra_wheels_dirs) : ~PathExists(f, extra_wheels_dirs[i])
    THEN [err |-> "FileNotFoundError", fs |-> f]
    ELSE IF \E i \in 1..Len(extra_wheels_dirs) :
                WheelCount(f, extra_wheels_dirs[i]) # WheelCount(f, wheels_dir)
    THEN [err |-> "ValueError", fs |-> f]
    ELSE [err |-> "ok", fs |-> MergeLoop(f, wheels_dir, extra_wheels_dirs)]

----------------------------------------------------------------------------
(* clear_dirs *)

\* a clear_dirs that empties a directory in place instead of removing it
RECURSIVE clear_dirs_files_only(_, _)
clear_dirs_files_only(f, dirs) ==
    IF dirs = <<>> THEN [err |-> "ok", fs |-> f]
    ELSE LET directory == Head(dirs)
             g == Unlink(f, {p \in Entries(f, directory) : IsFile(f, p)})
         IN IF IsFile(f, directory) \/ \E a \in Ancestors(directory) : IsFile(f, a)
            THEN [err |-> "NotADirectoryError", fs |-> f]
            ELSE clear_dirs_files_only(Mkdir(g, directory), Tail(dirs))

RECURSIVE clear_dirs(_, _)
clear_dirs(f, dirs) ==
    IF dirs = <<>> THEN [err |-> "ok", fs |-> f]
    ELSE LET directory == Head(dirs)
             g == IF IsDir(f, directory) THEN Rmtree(f, directory) ELSE f
         IN IF IsFile(f, directory)
            THEN [err |-> "NotADirectoryError", fs |-> f]    \* shutil.rmtree of a file
            ELSE IF \E a \in Ancestors(directory) : IsFile(g, a)
            THEN [err |-> "NotADirectoryError", fs |-> g]    \* mkdir under a file
            ELSE clear_dirs(Mkdir(g, directory), Tail(dirs))

----------------------------------------------------------------------------
(* Values the checks draw from. *)

SeqsUpTo(S, n) == UNION {[1..k -> S] : k \in 0..n}

WhlNames == {<<"A", ".whl">>, <<"B", ".whl">>, <<"C", ".whl">>}

Notes == <<"notes", ".txt">>

Whl(origin) == [kind |-> "whl", from |-> origin]

Txt(origin) == [kind |-> "txt", from |-> origin]

Toml(doc) == [kind |-> "toml", doc |-> doc]

\* directory d, created if need be, with the files `names` of content c added
WithFiles(f, d, names, c) ==
    LET g == Mkdir(f, d)
        tgt == {d \o <<n>> : n \in names}
    IN [g EXCEPT !.files = [q \in DOMAIN @ \cup tgt |->
                               IF q \in tgt THEN c ELSE @[q]]]

X1 == << <<"x1">> >>

X2 == << <<"x2">> >>

ExtraDirs == {X1, X2}

ExtraStates ==
    {[present |-> FALSE, names |-> {}]} \cup [present : {TRUE}, names : SUBSET WhlNames]

\* an --extra-wheels directory: absent, or holding wheels built on another platform
WithExtra(f, d, x) ==
    IF x.present
    THEN WithFiles(WithFiles(f, d, x.names, Whl(d[1][1])), d, {Notes}, Txt(d[1][1]))
    ELSE f

Call(name, err) == [call |-> name, err |-> err]

\* self._module = None, self._resolved_name = None
Unresolved == [module |-> <<>>, resolved_name |-> <<>>]

NoHostApp ==
    /\ registry = <<>>
    /\ proxy = Unresolved

Idle ==
    /\ snap = <<>>
    /\ pip = "none"
    /\ built = {}
    /\ NoHostApp
    /\ status = "running"

----------------------------------------------------------------------------
(* get_platform_string called for every host and connector. *)

InitPlatform ==
    /\ fs = EmptyFS
    /\ host \in [system : Systems, machine : Machines]
    /\ argv \in [connector : Connectors]
    /\ pc = "call"
    /\ ret = <<>>
    /\ trace = <<>>
    /\ Idle

CallPlatform ==
    /\ pc = "call"
    /\ ret' = get_platform_string(host, argv.connector)
    /\ trace' = Append(trace, Call("get_platform_string", "ok"))
    /\ pc' = "returned"
    /\ UNCHANGED <<fs, argv, host, snap, pip, status, built, registry, proxy>>

NextPlatform == CallPlatform

SpecPlatform == InitPlatform /\ [][NextPlatform]_vars

Platform(os, connector, arch) == <<os, connector, arch>>

\* C7 as stated: the four listed (system, machine) pairs map to their platform
\* strings and every other pair maps to "unsupported".
C7_OnlyFourPairsSupported ==
    pc = "returned" =>
        ret = IF host.system = "Linux" /\ host.machine = "x86_64"
                THEN Platform("linux", argv.connector, "x64")
              ELSE IF host.system = "Darwin" /\ host.machine = "x86_64"
                THEN Platform("macos", argv.connector, "x64")
              ELSE IF host.system = "Darwin" /\ host.machine = "arm64"
                THEN Platform("macos", argv.connector, "arm64")
              ELSE IF host.system = "Windows" /\ host.machine = "x86_64"
                THEN Platform("windows", argv.connector, "x64")
              ELSE <<"unsupported">>

\* C7 amended: (Linux, x86_64) gives linux-x64; Darwin gives macos-x64 on x86_64
\* and macos-arm64 on every other machine; Windows and Microsoft give windows-x64
\* on every machine; every other system, and Linux on another machine, gives
\* "unsupported"; the caller's connector stands in place of '-'.
C7_PlatformTable ==
    pc = "returned" =>
        /\ (host.system = "Linux" /\ host.machine = "x86_64")
               => ret = Platform("linux", argv.connector, "x64")
        /\ (host.system = "Linux" /\ host.machine # "x86_64")
               => ret = <<"unsupported">>
        /\ (host.system = "Darwin" /\ host.machine = "x86_64")
               => ret = Platform("macos", argv.connector, "x64")
        /\ (host.system = "Darwin" /\ host.machine # "x86_64")
               => ret = Platform("macos", argv.connector, "arm64")
        /\ host.system \in {"Windows", "Microsoft"}
               => ret = Platform("windows", argv.connector, "x64")
        /\ host.system \notin {"Linux", "Darwin", "Windows", "Microsoft"}
               => ret = <<"unsupported">>

C7_Witness ==
    /\ pc = "returned"
    /\ host = [system |-> "Windows", machine |-> "AMD64"]
    /\ argv.connector = "_"
    /\ ret = <<"windows", "_", "x64">>

----------------------------------------------------------------------------
(* merge_wheels called, and called again, on a primary wheel directory and *)
(* a list of extra directories.                                            *)

PrimaryWheels == << <<"build">>, <<"wheels">> >>

InitMerge ==
    /\ \E P \in SUBSET WhlNames, x1 \in ExtraStates, x2 \in ExtraStates :
          fs = WithExtra(
                   WithExtra(
                       WithFiles(WithFiles(EmptyFS, PrimaryWheels, P, Whl("pip")),
                                 PrimaryWheels, {Notes}, Txt("pip")),
                       X1, x1),
                   X2, x2)
    /\ argv \in [wheels_dir : {PrimaryWheels},
                 extra_wheels : SeqsUpTo(ExtraDirs, MaxExtras)]
    /\ host = [system |-> "Linux", machine |-> "x86_64"]
    /\ pc = "call"
    /\ ret = "none"
    /\ trace = <<>>
    /\ Idle

CallMerge ==
    /\ pc = "call"
    /\ Len(trace) < MaxCalls
    /\ LET r == merge_wheels(fs, argv.wheels_dir, argv.extra_wheels)
       IN /\ fs' = r.fs
          /\ ret' = r.err
          /\ trace' = Append(trace, Call("merge_wheels", r.err))
    /\ UNCHANGED <<argv, host, pc, snap, pip, status, built, registry, proxy>>

NextMerge == CallMerge

SpecMerge == InitMerge /\ [][NextMerge]_vars

WheelNames(f, d) == {Last(w) : w \in GlobWhl(f, d)}

ExtraNames(f, extras) == UNION {WheelNames(f, extras[i]) : i \in 1..Len(extras)}

\* some extra directory is missing or holds another number of wheels than the primary
Inconsistent(f, wheels_dir, extras) ==
    \E i \in 1..Len(extras) :
        \/ ~PathExists(f, extras[i])
        \/ WheelCount(f, extras[i]) # WheelCount(f, wheels_dir)

\* the first directory of the list that holds a wheel of the name
FirstHolder(f, extras, name) ==
    extras[CHOOSE i \in 1..Len(extras) :
              /\ name \in WheelNames(f, extras[i])
              /\ \A j \in 1..(i - 1) : name \notin WheelNames(f, extras[j])]

IsMergeCall == pc = "call" /\ trace' # trace

\* C3: when an extra directory is missing or its wheel count differs from the
\* primary's, merge_wheels raises and nothing was copied: the file system, the
\* primary wheel directory included, is what it was before the call.
C3_MergeFailsBeforeCopying ==
    [][(IsMergeCall /\ Inconsistent(fs, argv.wheels_dir, argv.extra_wheels))
          => /\ ret' \in {"FileNotFoundError", "ValueError"}
             /\ fs' = fs]_vars

\* a failed first call whose first extra directory was valid and had a new wheel
C3_Witness ==
    /\ Len(trace) = 1
    /\ ret = "ValueError"
    /\ argv.extra_wheels = <<X1, X2>>
    /\ WheelCount(fs, X1) = WheelCount(fs, PrimaryWheels)
    /\ WheelNames(fs, X1) \ WheelNames(fs, PrimaryWheels) # {}
    /\ WheelCount(fs, X2) # WheelCount(fs, PrimaryWheels)

\* C4: when every extra directory exists with the primary's wheel count, the
\* merge succeeds, the primary's wheel names become the union of its own and all
\* extra directories' names, every wheel it already held keeps its content, and
\* a new wheel has the content of the first listed directory that holds it.
C4_MergeIsUnionFirstWriterWins ==
    [][(IsMergeCall /\ ~Inconsistent(fs, argv.wheels_dir, argv.extra_wheels))
          => /\ ret' = "ok"
             /\ WheelNames(fs', argv.wheels_dir) =
                    WheelNames(fs, argv.wheels_dir)
                        \cup ExtraNames(fs, argv.extra_wheels)
             /\ \A w \in GlobWhl(fs, argv.wheels_dir) :
                    fs'.files[w] = fs.files[w]
             /\ \A w \in GlobWhl(fs', argv.wheels_dir) \ GlobWhl(fs, argv.wheels_dir) :
                    fs'.files[w] =
                        fs.files[FirstHolder(fs, argv.extra_wheels, Last(w))
                                     \o <<Last(w)>>]]_vars

\* a merge that skipped a wheel the primary had and one an earlier extra gave
C4_Witness ==
    /\ Len(trace) = 1
    /\ ret = "ok"
    /\ argv.extra_wheels = <<X1, X2>>
    /\ \E n \in WheelNames(fs, X1) :
          /\ IsFile(fs, PrimaryWheels \o <<n>>)
          /\ fs.files[PrimaryWheels \o <<n>>] = Whl("pip")
    /\ \E n \in WheelNames(fs, X1) \cap WheelNames(fs, X2) :
          /\ IsFile(fs, PrimaryWheels \o <<n>>)
          /\ fs.files[PrimaryWheels \o <<n>>] = Whl("x1")

\* C5 as stated: a second merge_wheels with the same arguments after a successful
\* first one succeeds.
C5_SecondMergeSucceeds ==
    (Len(trace) = 2 /\ trace[1].err = "ok") => trace[2].err = "ok"

\* C5 amended: after a successful merge, a second call with the same arguments
\* leaves the file system unchanged; it succeeds when the first call copied
\* nothing (every wheel of the primary is its own) and raises ValueError when
\* the first call added a wheel.
C5_SecondMergeChangesNothing ==
    [][(IsMergeCall /\ Len(trace) = 1 /\ trace[1].err = "ok")
          => /\ fs' = fs
             /\ ret' = IF \A w \in GlobWhl(fs, argv.wheels_dir) :
                             fs.files[w] = Whl("pip")
                        THEN "ok" ELSE "ValueError"]_vars

C5_Witness ==
    /\ Len(trace) = 2
    /\ trace[1].err = "ok"
    /\ trace[2].err = "ValueError"
    /\ \E w \in GlobWhl(fs, PrimaryWheels) : fs.files[w] # Whl("pip")

----------------------------------------------------------------------------
(* clear_dirs called on a list of paths of a populated file system.        *)

Out == << <<"out">> >>

OutBuild == << <<"out">>, <<"build">> >>

Export == << <<"export">> >>

ClearPaths == {Out, OutBuild, Export}

Stale == <<"stale", ".txt">>

Prior(f, d, how) ==
    IF how = "dir" THEN Mkdir(f, d)
    ELSE IF how = "full" THEN WithFiles(f, d, {Stale}, Txt("old"))
    ELSE IF how = "file" THEN WriteFile(f, d, Txt("old"))
    ELSE f

InitClear ==
    /\ \E a \in {"none", "dir", "full"}, b \in {"none", "dir", "full"},
          c \in {"none", "dir", "full", "file"} :
          fs = Prior(Prior(Prior(EmptyFS, Out, a), OutBuild, b), Export, c)
    /\ argv \in [dirs : SeqsUpTo(ClearPaths, MaxDirs)]
    /\ host = [system |-> "Linux", machine |-> "x86_64"]
    /\ pc = "call"
    /\ ret = "none"
    /\ trace = <<>>
    /\ Idle

CallClear ==
    /\ pc = "call"
    /\ LET r == clear_dirs(fs, argv.dirs)
       IN /\ fs' = r.fs
          /\ ret' = r.err
          /\ trace' = Append(trace, Call("clear_dirs", r.err))
    /\ pc' = "returned"
    /\ UNCHANGED <<argv, host, snap, pip, status, built, registry, proxy>>

NextClear == CallClear

SpecClear == InitClear /\ [][NextClear]_vars

Nested(dirs) ==
    \E i, j \in 1..Len(dirs) : dirs[i] # dirs[j] /\ IsPrefix(dirs[i], dirs[j])

\* C6 as stated: after clear_dirs returns, every listed directory exists and is
\* empty, for any list of paths.
C6_AllListedEmpty ==
    (pc = "returned" /\ ret = "ok")
        => \A i \in 1..Len(argv.dirs) : IsEmptyDir(fs, argv.dirs[i])

\* C6 amended: after clear_dirs returns, every listed directory exists and is
\* empty, for any list of paths (a path may be listed twice) in which no path
\* lies inside another listed path.
C6_UnnestedListedEmpty ==
    (pc = "returned" /\ ret = "ok" /\ ~Nested(argv.dirs))
        => \A i \in 1..Len(argv.dirs) : IsEmptyDir(fs, argv.dirs[i])

C6_Witness ==
    /\ pc = "returned"
    /\ ret = "ok"
    /\ argv.dirs = <<OutBuild, OutBuild>>
    /\ IsEmptyDir(fs, OutBuild)

----------------------------------------------------------------------------
(* generate_updated_pyproject called on a descriptor, its result written   *)
(* to a copy as build_wheels does, and called again on the copy.           *)

PyprojectName == <<"pyproject", ".toml">>

PyprojectPath == <<PyprojectName>>

TmpDir == << <<"tmp">> >>

PkgNames == {"ase", "numpy", "spglib"}

Versions == {"1.0", "2.0"}

Distinct(s) == \A i, j \in 1..Len(s) : i # j => s[i][1] # s[j][1]

Snapshots == {s \in SeqsUpTo(PkgNames \X Versions, MaxPkgs) : Distinct(s)}

OldPin == << <<"numpy", "==", "1.0">> >>

TestGroup == [g \in {"test"} |-> << <<"pytest">> >>]

OptionalDependencies ==
    {t @@ b : t \in {EmptyDict, TestGroup},
              b \in {EmptyDict} \cup [{"blender-extension"} -> {<<>>, OldPin}]}

Projects ==
    {[k \in {"name"} |-> "batoms"]}
        \cup {[k \in {"name", "optional-dependencies"} |->
                  IF k = "name" THEN "batoms" ELSE od] : od \in OptionalDependencies}

BuildSystem == [k \in {"build-system"} |-> "setuptools"]

Docs == {BuildSystem} \cup {BuildSystem @@ [k \in {"project"} |-> pr] : pr \in Projects}

InitPyproject ==
    /\ \E doc \in Docs : fs = WriteFile(EmptyFS, PyprojectPath, Toml(doc))
    /\ argv \in [pyproject : {PyprojectPath},
                 target : {TmpDir \o <<PyprojectName>>},
                 existing_packages : Snapshots]
    /\ host = [system |-> "Linux", machine |-> "x86_64"]
    /\ pc = "call"
    /\ ret = [err |-> "none", doc |-> EmptyDict]
    /\ trace = <<>>
    /\ Idle

CallGenerate ==
    /\ pc = "call"
    /\ ret' = generate_updated_pyproject(fs, argv.pyproject, argv.existing_packages)
    /\ trace' = Append(trace, Call("generate_updated_pyproject", ret'.err))
    /\ pc' = IF ret'.err = "ok" THEN "dump" ELSE "raised"
    /\ UNCHANGED <<fs, argv, host, snap, pip, status, built, registry, proxy>>

\* toml.dump(updated_pyproject, f) into the copy
DumpCopy ==
    /\ pc = "dump"
    /\ fs' = WriteFile(Mkdir(fs, Parent(argv.target)), argv.target, Toml(ret.doc))
    /\ pc' = "call_again"
    /\ UNCHANGED <<argv, host, snap, pip, ret, trace, status, built, registry, proxy>>

CallGenerateAgain ==
    /\ pc = "call_again"
    /\ ret' = generate_updated_pyproject(fs, argv.target, argv.existing_packages)
    /\ trace' = Append(trace, Call("generate_updated_pyproject", ret'.err))
    /\ pc' = "returned"
    /\ UNCHANGED <<fs, argv, host, snap, pip, status, built, registry, proxy>>

NextPyproject == CallGenerate \/ DumpCopy \/ CallGenerateAgain

SpecPyproject == InitPyproject /\ [][NextPyproject]_vars

HasBlenderExtensionGroup(doc) ==
    /\ "project" \in DOMAIN doc
    /\ "optional-dependencies" \in DOMAIN doc["project"]
    /\ "blender-extension" \in DOMAIN doc["project"]["optional-dependencies"]

\* the two documents agree everywhere but in the blender-extension group
SameButGroup(new, old) ==
    /\ DOMAIN new = DOMAIN old
    /\ \A k \in DOMAIN old \ {"project"} : new[k] = old[k]
    /\ DOMAIN new["project"] = DOMAIN old["project"]
    /\ \A k \in DOMAIN old["project"] \ {"optional-dependencies"} :
          new["project"][k] = old["project"][k]
    /\ DOMAIN new["project"]["optional-dependencies"] =
          DOMAIN old["project"]["optional-dependencies"]
    /\ \A g \in DOMAIN old["project"]["optional-dependencies"] \ {"blender-extension"} :
          new["project"]["optional-dependencies"][g] =
              old["project"]["optional-dependencies"][g]

Pins(existing_packages) ==
    [i \in 1..Len(existing_packages) |->
        <<existing_packages[i][1], "==", existing_packages[i][2]>>]

\* C10: generate_updated_pyproject raises when the descriptor has no
\* blender-extension group; otherwise the returned document has exactly the
\* snapshot's "name==version" strings as that group and equals the input in every
\* other field; the call writes no file; and the rewrite of the rewritten
\* document, with the same snapshot, returns the same document.
C10_RewriteOnlyTheGroup ==
    [][/\ (pc = "call" /\ pc' # pc) =>
            LET old == fs.files[argv.pyproject].doc
            IN /\ fs' = fs
               /\ IF HasBlenderExtensionGroup(old)
                  THEN /\ ret'.err = "ok"
                       /\ ret'.doc["project"]["optional-dependencies"]["blender-extension"]
                              = Pins(argv.existing_packages)
                       /\ SameButGroup(ret'.doc, old)
                  ELSE ret'.err = "ValueError"
       /\ (pc = "call_again" /\ pc' # pc) =>
            /\ fs' = fs
            /\ fs'.files[argv.pyproject] = fs.files[argv.pyproject]
            /\ ret' = ret]_vars

\* a descriptor with a stale pin and another group, rewritten twice
C10_Witness ==
    /\ pc = "returned"
    /\ ret.err = "ok"
    /\ Len(argv.existing_packages) = 2
    /\ fs.files[argv.pyproject].doc["project"]["optional-dependencies"] =
          TestGroup @@ [g \in {"blender-extension"} |-> OldPin]
    /\ ret.doc["project"]["optional-dependencies"]["test"] = << <<"pytest">> >>
    /\ Len(ret.doc["project"]["optional-dependencies"]["blender-extension"]) = 2

----------------------------------------------------------------------------
(* compress_wheels, update_blender_manifest, copy_source_code,             *)
(* build_extension                                                         *)

Wheels(build_dir) == build_dir \o << <<"wheels">> >>

RelativeTo(p, d) == SubSeq(p, Len(d) + 1, Len(p))

ZipOf(members) == [kind |-> "zip", members |-> members]

WheelsZipName(h) ==
    <<"batoms", "-", "wheels", "-">> \o get_platform_string(h, "_") \o <<".zip">>

copy_source_code(f, source_code, build_dir) ==
    IF ~PathExists(f, source_code)
    THEN [err |-> "FileNotFoundError", fs |-> f]
    ELSE [err |-> "ok", fs |-> Copytree(f, source_code, build_dir)]

\* a compress_wheels that leaves the archive beside the wheels
compress_wheels_into_wheels_dir(f, h, build_dir, export_dir) ==
    LET wheels_dir == Wheels(build_dir)
        zip_path == wheels_dir \o <<WheelsZipName(h)>>
        members == {RelativeTo(p, wheels_dir) :
                       p \in {q \in DOMAIN f.files : IsPrefix(wheels_dir, q)}}
    IN IF ~PathExists(f, wheels_dir)
       THEN [err |-> "FileNotFoundError", fs |-> f]
       ELSE [err |-> "ok", fs |-> WriteFile(f, zip_path, ZipOf(members))]

\* shutil.make_archive(base, "zip", wheels_dir): every file under wheels_dir
compress_wheels(f, h, build_dir, export_dir) ==
    LET wheels_dir == Wheels(build_dir)
        zip_path == export_dir \o <<WheelsZipName(h)>>
        members == {RelativeTo(p, wheels_dir) :
                       p \in {q \in DOMAIN f.files : IsPrefix(wheels_dir, q)}}
    IN IF ~PathExists(f, wheels_dir)
       THEN [err |-> "FileNotFoundError", fs |-> f]
       ELSE [err |-> "ok", fs |-> WriteFile(f, zip_path, ZipOf(members))]

ManifestName == <<"blender_manifest", ".toml">>

Generated(doc) == [kind |-> "toml", doc |-> doc, header |-> "generated"]

SetKey(doc, k, v) == [x \in DOMAIN doc \cup {k} |-> IF x = k THEN v ELSE doc[x]]

\* wheels_list is in the order glob yields the files, which is any order
WheelLists(f, build_dir) ==
    LET ws == {RelativeTo(w, build_dir) : w \in GlobWhl(f, Wheels(build_dir))}
    IN {l \in [1..Cardinality(ws) -> ws] : {l[i] : i \in DOMAIN l} = ws}

\* an update_blender_manifest that adds to the wheels the manifest lists
update_blender_manifest_extend(f, build_dir, manifest, wheels_list) ==
    IF ~IsFile(f, manifest)
    THEN [err |-> "FileNotFoundError", fs |-> f]
    ELSE [err |-> "ok",
          fs |-> WriteFile(f, build_dir \o <<ManifestName>>,
                           Generated(SetKey(f.files[manifest].doc, "wheels",
                                            Get(f.files[manifest].doc, "wheels", <<>>)
                                                \o wheels_list)))]

update_blender_manifest(f, build_dir, manifest, wheels_list) ==
    IF ~IsFile(f, manifest)
    THEN [err |-> "FileNotFoundError", fs |-> f]
    ELSE [err |-> "ok",
          fs |-> WriteFile(f, build_dir \o <<ManifestName>>,
                           Generated(SetKey(f.files[manifest].doc, "wheels", wheels_list)))]

ArchiveName(platform) == <<"batoms", "-", "1.0", "-">> \o platform \o <<".zip">>

\* a build_extension whose cleanup keeps the wrong archives
build_extension_inverted(f, h, build_dir, export_dir, platforms, current_platform_only) ==
    LET g == WithFiles(Mkdir(f, build_dir), export_dir,
                       {ArchiveName(pl) : pl \in platforms}, ZipOf({}))
        platform_string == get_platform_string(h, "_")
        other == {z \in GlobBatomsZip(g, export_dir) :
                     Contains(Last(z), platform_string)}
    IN IF current_platform_only THEN Unlink(g, other) ELSE g

\* the archives left in export_dir once the host's build command has written
\* those of `platforms`
build_extension(f, h, build_dir, export_dir, platforms, current_platform_only) ==
    LET g == WithFiles(Mkdir(f, build_dir), export_dir,
                       {ArchiveName(pl) : pl \in platforms}, ZipOf({}))
        platform_string == get_platform_string(h, "_")
        other == {z \in GlobBatomsZip(g, export_dir) :
                     ~Contains(Last(z), platform_string)}
    IN IF current_platform_only THEN Unlink(g, other) ELSE g

----------------------------------------------------------------------------
(* main: one run of the pipeline.                                          *)

SourceCode == << <<"batoms">> >>

Manifest == <<ManifestName>>

InitPy == <<"__init__", ".py">>

Build == << <<"build">> >>

Layouts ==
    {[build_dir |-> Build, export_dir |-> Export],
     [build_dir |-> Out, export_dir |-> Out],
     [build_dir |-> Build, export_dir |-> Build \o << <<"export">> >>],
     [build_dir |-> Out \o << <<"build">> >>, export_dir |-> Out]}

Hosts ==
    {[system |-> "Linux", machine |-> "x86_64"],
     [system |-> "Darwin", machine |-> "arm64"],
     [system |-> "FreeBSD", machine |-> "AMD64"]}

\* what an --extra-wheels directory of a run may be
RunExtraStates ==
    {[present |-> FALSE, names |-> {}],
     [present |-> TRUE, names |-> {<<"A", ".whl">>, <<"C", ".whl">>}],
     [present |-> TRUE, names |-> {<<"B", ".whl">>}]}

Listed(extras, d) == \E i \in 1..Len(extras) : extras[i] = d

GoodPyproject ==
    BuildSystem @@ [k \in {"project"} |->
        [j \in {"name", "optional-dependencies"} |->
            IF j = "name" THEN "batoms"
            ELSE TestGroup @@ [g \in {"blender-extension"} |-> OldPin]]]

StalePyproject ==
    BuildSystem @@ [k \in {"project"} |-> [j \in {"name"} |-> "batoms"]]

ManifestDoc ==
    [k \in {"id", "wheels"} |->
        IF k = "id" THEN "batoms" ELSE << << <<"wheels">>, <<"old", ".whl">> >> >>]

\* a manifest that has no wheels field yet
FreshManifestDoc == [k \in {"id"} |-> "batoms"]

\* what a run may find in the repository: everything in place ("none", and
\* "fresh_manifest" with a manifest that lists no wheels), or one thing amiss
Faults == {"none", "fresh_manifest", "no_source", "no_group", "no_manifest"}

RepoFS(fault, prior, layout) ==
    LET f1 == IF fault = "no_source" THEN EmptyFS
              ELSE WithFiles(EmptyFS, SourceCode, {InitPy}, Txt("src"))
        f2 == WriteFile(f1, PyprojectPath,
                        Toml(IF fault = "no_group" THEN StalePyproject
                             ELSE GoodPyproject))
        f3 == IF fault = "no_manifest" THEN f2
              ELSE WriteFile(f2, Manifest,
                             Toml(IF fault = "fresh_manifest" THEN FreshManifestDoc
                                  ELSE ManifestDoc))
    IN Prior(Prior(f3, layout.build_dir, prior), layout.export_dir, prior)

Init ==
    /\ argv \in [only_compress_wheels : BOOLEAN,
                 extra_wheels : SeqsUpTo(ExtraDirs, MaxExtras),
                 layout : Layouts]
    /\ \E fault \in Faults, prior \in {"none", "full"},
          x1 \in RunExtraStates, x2 \in RunExtraStates :
          /\ Listed(argv.extra_wheels, X1) \/ ~x1.present
          /\ Listed(argv.extra_wheels, X2) \/ ~x2.present
          /\ fs = WithExtra(WithExtra(RepoFS(fault, prior, argv.layout), X1, x1), X2, x2)
    /\ host \in Hosts
    /\ pc = "clear_dirs"
    /\ snap = <<>>
    /\ pip = "none"
    /\ ret = "none"
    /\ trace = <<>>
    /\ status = 0
    /\ built = {}
    /\ NoHostApp

build_dir == argv.layout.build_dir

export_dir == argv.layout.export_dir

current_platform_only == Len(argv.extra_wheels) = 0

\* the except clause of main: print the error, sys.exit(1)
Raise(name, err) ==
    /\ trace' = Append(trace, Call(name, err))
    /\ ret' = err
    /\ status' = 1
    /\ pc' = "exit"

Return(name, next) ==
    /\ trace' = Append(trace, Call(name, "ok"))
    /\ ret' = "ok"
    /\ status' = status
    /\ pc' = next

ClearDirs ==
    /\ pc = "clear_dirs"
    /\ LET r == clear_dirs(fs, <<build_dir, export_dir>>)
       IN /\ fs' = r.fs
          /\ IF r.err = "ok" THEN Return("clear_dirs", "copy_source_code")
             ELSE Raise("clear_dirs", r.err)
    /\ UNCHANGED <<argv, host, snap, pip, built, registry, proxy>>

\* a main that copies the source without waiting for clear_dirs
CopySourceCode_unordered ==
    /\ pc \in {"clear_dirs", "copy_source_code"}
    /\ LET r == copy_source_code(fs, SourceCode, build_dir)
       IN /\ fs' = r.fs
          /\ IF r.err = "ok" THEN Return("copy_source_code", "get_installed_packages")
             ELSE Raise("copy_source_code", r.err)
    /\ UNCHANGED <<argv, host, snap, pip, built, registry, proxy>>

CopySourceCode ==
    /\ pc = "copy_source_code"
    /\ LET r == copy_source_code(fs, SourceCode, build_dir)
       IN /\ fs' = r.fs
          /\ IF r.err = "ok" THEN Return("copy_source_code", "get_installed_packages")
             ELSE Raise("copy_source_code", r.err)
    /\ UNCHANGED <<argv, host, snap, pip, built, registry, proxy>>

FrozenLists ==
    {<< <<"pip", "24.0">>, <<"ase", "1.0">>, <<"setuptools", "70.0">> >>,
     << <<"numpy", "2.0">>, <<"wheel", "0.4">>, <<"ase", "2.0">> >>}

\* build_wheels up to the temporary directory: the snapshot, and wheels_dir
\* made and cleared of wheels
Snapshot ==
    /\ pc = "get_installed_packages"
    /\ \E frozen \in FrozenLists : snap' = get_installed_packages(frozen)
    /\ LET g == Mkdir(fs, Wheels(build_dir))
       IN fs' = Unlink(g, GlobWhl(g, Wheels(build_dir)))
    /\ Return("get_installed_packages", "generate_updated_pyproject")
    /\ UNCHANGED <<argv, host, pip, built, registry, proxy>>

\* the temporary directory: the source copied, the descriptor rewritten into it
RewriteManifest ==
    /\ pc = "generate_updated_pyproject"
    /\ LET g == Copytree(fs, SourceCode, TmpDir \o SourceCode)
           r == generate_updated_pyproject(g, PyprojectPath, snap)
       IN IF r.err = "ok"
          THEN /\ fs' = WriteFile(g, TmpDir \o <<PyprojectName>>, Toml(r.doc))
               /\ Return("generate_updated_pyproject", "pip_wheel")
          ELSE /\ fs' = Rmtree(g, TmpDir)
               /\ Raise("generate_updated_pyproject", r.err)
    /\ UNCHANGED <<argv, host, snap, pip, built, registry, proxy>>

PipOutcomes ==
    {[status |-> "SUCCESS", wheels |-> {<<"A", ".whl">>, <<"B", ".whl">>}],
     [status |-> "ERROR", wheels |-> {<<"A", ".whl">>}],
     [status |-> "ERROR", wheels |-> {}]}

\* wc.main(options): the status it returns is dropped; the temporary directory
\* is removed on leaving the with block
PipWheel ==
    /\ pc = "pip_wheel"
    /\ \E o \in PipOutcomes :
          /\ pip' = o.status
          /\ fs' = Rmtree(WithFiles(fs, Wheels(build_dir), o.wheels, Whl("pip")), TmpDir)
    /\ Return("pip_wheel", "merge_wheels")
    /\ UNCHANGED <<argv, host, snap, built, registry, proxy>>

MergeWheels ==
    /\ pc = "merge_wheels"
    /\ LET r == merge_wheels(fs, Wheels(build_dir), argv.extra_wheels)
       IN /\ fs' = r.fs
          /\ IF r.err = "ok" THEN Return("merge_wheels", "only_compress_wheels")
             ELSE Raise("merge_wheels", r.err)
    /\ UNCHANGED <<argv, host, snap, pip, built, registry, proxy>>

\* if args.only_compress_wheels: if len(extra_wheels) > 0: raise ValueError
CheckOnlyCompress ==
    /\ pc = "only_compress_wheels"
    /\ IF argv.only_compress_wheels
       THEN IF Len(argv.extra_wheels) > 0
            THEN Raise("only_compress_wheels", "ValueError")
            ELSE Return("only_compress_wheels", "compress_wheels")
       ELSE Return("only_compress_wheels", "update_blender_manifest")
    /\ UNCHANGED <<fs, argv, host, snap, pip, built, registry, proxy>>

CompressWheels ==
    /\ pc = "compress_wheels"
    /\ LET r == compress_wheels(fs, host, build_dir, export_dir)
       IN /\ fs' = r.fs
          /\ IF r.err = "ok" THEN Return("compress_wheels", "exit")
             ELSE Raise("compress_wheels", r.err)
    /\ UNCHANGED <<argv, host, snap, pip, built, registry, proxy>>

UpdateBlenderManifest ==
    /\ pc = "update_blender_manifest"
    /\ \E wheels_list \in WheelLists(fs, build_dir) :
          LET r == update_blender_manifest(fs, build_dir, Manifest, wheels_list)
          IN /\ fs' = r.fs
             /\ IF r.err = "ok" THEN Return("update_blender_manifest", "get_blender_bin")
                ELSE Raise("update_blender_manifest", r.err)
    /\ UNCHANGED <<argv, host, snap, pip, built, registry, proxy>>

\* import bpy succeeds inside the host application only
GetBlenderBin ==
    /\ pc = "get_blender_bin"
    /\ \/ Return("get_blender_bin", "build_extension")
       \/ Raise("get_blender_bin", "ImportError")
    /\ UNCHANGED <<fs, argv, host, snap, pip, built, registry, proxy>>

Linux64 == <<"linux", "_", "x64">>

MacArm == <<"macos", "_", "arm64">>

Win64 == <<"windows", "_", "x64">>

BlenderOutcomes ==
    {[rc |-> "0", platforms |-> {Linux64, MacArm, Win64}],
     [rc |-> "0", platforms |-> {MacArm, Win64}],
     [rc |-> "1", platforms |-> {}]}

\* subprocess.run(commands, check=True), then the archives of other platforms
\* removed when no extra wheels were given
BuildExtension ==
    /\ pc = "build_extension"
    /\ \E o \in BlenderOutcomes :
          /\ built' = {export_dir \o <<ArchiveName(pl)>> : pl \in o.platforms}
          /\ IF o.rc = "0"
             THEN /\ fs' = build_extension(fs, host, build_dir, export_dir,
                                           o.platforms, current_platform_only)
                  /\ Return("build_extension", "exit")
             ELSE /\ fs' = Mkdir(Mkdir(fs, build_dir), export_dir)
                  /\ Raise("build_extension", "CalledProcessError")
    /\ UNCHANGED <<argv, host, snap, pip, registry, proxy>>

Next ==
    \/ ClearDirs
    \/ CopySourceCode
    \/ Snapshot
    \/ RewriteManifest
    \/ PipWheel
    \/ MergeWheels
    \/ CheckOnlyCompress
    \/ CompressWheels
    \/ UpdateBlenderManifest
    \/ GetBlenderBin
    \/ BuildExtension

Spec == Init /\ [][Next]_vars

----------------------------------------------------------------------------
(* Claims about a run of main. *)

Ran(name) == \E i \in 1..Len(trace) : trace[i].call = name

BuildWork == {"clear_dirs", "copy_source_code", "pip_wheel", "merge_wheels"}

\* C1 as stated: in a run given --only-compress-wheels and a non-empty
\* --extra-wheels list, no directory is cleared, no source copied, no wheel built
\* and no wheel merged.
C1_UsageErrorBeforeBuildWork ==
    (argv.only_compress_wheels /\ Len(argv.extra_wheels) > 0)
        => \A i \in 1..Len(trace) : trace[i].call \notin BuildWork

AfterWheelBuild ==
    {"merge_wheels", "compress_wheels", "update_blender_manifest", "build_extension"}

\* C2 as stated: once the wheel builder has returned a non-zero status, none of
\* merge_wheels, compress_wheels, update_blender_manifest and build_extension
\* runs, and the process exits with a non-zero status.
C2_FailedWheelBuildAborts ==
    pip = "ERROR"
        => /\ \A i \in 1..Len(trace) : trace[i].call \notin AfterWheelBuild
           /\ pc = "exit" => status # 0

Zips(f, d) == {p \in Entries(f, d) : IsFile(f, p) /\ Last(Last(p)) = ".zip"}

HostPlatform ==
    IF host.system = "Linux" THEN <<"linux", "_", "x64">>
    ELSE IF host.system = "Darwin" THEN <<"macos", "_", "arm64">>
    ELSE <<"unsupported">>

\* C8: a run with --only-compress-wheels and no extra wheels in which every
\* stage succeeded ends with exactly one zip file in export_dir, named
\* batoms-wheels-<platform>.zip, holding every .whl file of the wheel directory,
\* and has run neither update_blender_manifest nor the host assembler.
C8_CompressOnlyRun ==
    (/\ pc = "exit"
     /\ status = 0
     /\ pip = "SUCCESS"
     /\ argv.only_compress_wheels
     /\ Len(argv.extra_wheels) = 0)
        => LET zip == export_dir \o
                          << <<"batoms", "-", "wheels", "-">> \o HostPlatform \o <<".zip">> >>
           IN /\ Zips(fs, export_dir) = {zip}
              /\ fs.files[zip].kind = "zip"
              /\ WheelNames(fs, Wheels(build_dir)) # {}
              /\ \A n \in WheelNames(fs, Wheels(build_dir)) : <<n>> \in fs.files[zip].members
              /\ ~Ran("update_blender_manifest")
              /\ ~Ran("get_blender_bin")
              /\ ~Ran("build_extension")

C8_Witness ==
    /\ pc = "exit"
    /\ status = 0
    /\ pip = "SUCCESS"
    /\ argv.only_compress_wheels
    /\ Len(argv.extra_wheels) = 0
    /\ Ran("compress_wheels")
    /\ host.system = "Darwin"
    /\ export_dir = Export

\* the i-th call of the run failed: it raised, or it was the wheel builder and
\* returned a non-zero status
StageFailed(i) ==
    \/ trace[i].err # "ok"
    \/ trace[i].call = "pip_wheel" /\ pip = "ERROR"

\* C9 as stated: once a stage fails no later stage executes and the process exits
\* with status 1; the process exits with status 0 only if every executed stage
\* succeeded.
C9_EveryFailureIsFatal ==
    /\ \A i \in 1..Len(trace) :
          StageFailed(i) => (i = Len(trace) /\ pc = "exit" /\ status = 1)
    /\ (pc = "exit" /\ status = 0) => \A i \in 1..Len(trace) : ~StageFailed(i)

Assembled == trace # <<>> /\ Last(trace) = Call("build_extension", "ok")

\* C12: once build_extension has returned, with no extra wheels supplied every
\* batoms-*.zip archive left in export_dir has the current platform's identifier
\* in its name, and with extra wheels supplied every archive the host's build
\* command wrote is still there.
C12_OnlyCurrentPlatformKept ==
    Assembled =>
        IF Len(argv.extra_wheels) = 0
        THEN \A z \in GlobBatomsZip(fs, export_dir) : Contains(Last(z), HostPlatform)
        ELSE \A z \in built : IsFile(fs, z)

\* a run on Linux whose build command wrote three archives, of which one is left
C12_Witness ==
    /\ Assembled
    /\ Len(argv.extra_wheels) = 0
    /\ host.system = "Linux"
    /\ Cardinality(built) = 3
    /\ GlobBatomsZip(fs, export_dir) = {export_dir \o <<ArchiveName(Linux64)>>}

StageOrder ==
    <<"clear_dirs", "copy_source_code", "get_installed_packages",
      "generate_updated_pyproject", "pip_wheel", "merge_wheels",
      "update_blender_manifest", "build_extension">>

Stages == {StageOrder[i] : i \in 1..Len(StageOrder)}

\* the stages among the calls t, in the order they were made
StagesOf(t) == SelectIdx(t, {i \in 1..Len(t) : t[i].call \in Stages})

InStageOrder(t) ==
    /\ Len(StagesOf(t)) <= Len(StageOrder)
    /\ \A i \in 1..Len(StagesOf(t)) : StagesOf(t)[i].call = StageOrder[i]

\* what the file system holds at and below build_dir and export_dir
Outputs(f) ==
    LET under(p) == IsPrefix(build_dir, p) \/ IsPrefix(export_dir, p)
    IN [dirs  |-> {p \in f.dirs : under(p)},
        files |-> Restrict(f.files, {p \in DOMAIN f.files : under(p)})]

\* C13: the stages of a run are made one after the other in the order clear_dirs,
\* copy_source_code, snapshot, descriptor rewrite, wheel build, merge_wheels,
\* update_blender_manifest, build_extension; merge_wheels copies nothing when no
\* extra wheels are given; and no step but clear_dirs changes build_dir or
\* export_dir before clear_dirs has returned.
C13_StagesInStrictOrder ==
    [][/\ InStageOrder(trace')
       /\ Len(trace') <= Len(trace) + 1
       /\ (pc = "merge_wheels" /\ Len(argv.extra_wheels) = 0) => fs' = fs
       /\ (pc # "clear_dirs" /\ Outputs(fs') # Outputs(fs))
             => (trace # <<>> /\ trace[1] = Call("clear_dirs", "ok"))]_vars

\* a full run with extra wheels: all eight stages, and a wheel merged from x1
C13_Witness ==
    /\ pc = "exit"
    /\ status = 0
    /\ Len(StagesOf(trace)) = Len(StageOrder)
    /\ Len(argv.extra_wheels) > 0
    /\ \E w \in GlobWhl(fs, Wheels(build_dir)) : fs.files[w] = Whl("x1")

BuiltManifest == build_dir \o <<ManifestName>>

\* C15: when update_blender_manifest returns, the wheels field of the manifest
\* written to build_dir lists, once each, the build_dir-relative paths of the
\* .whl files the wheel directory holds at the call, whatever the field held
\* before, and every other field is the source manifest's.
C15_WheelsFieldRegenerated ==
    [][(pc = "update_blender_manifest" /\ pc' = "get_blender_bin") =>
          LET old == fs.files[Manifest].doc
              new == fs'.files[BuiltManifest].doc
              names == WheelNames(fs, Wheels(build_dir))
          IN /\ {new["wheels"][i] : i \in 1..Len(new["wheels"])} =
                    {<< <<"wheels">>, n >> : n \in names}
             /\ Len(new["wheels"]) = Cardinality(names)
             /\ DOMAIN new = DOMAIN old \cup {"wheels"}
             /\ \A k \in DOMAIN old \ {"wheels"} : new[k] = old[k]]_vars

\* a manifest that listed a stale wheel, rewritten with two own and one merged wheel
C15_Witness ==
    /\ pc = "get_blender_bin"
    /\ IsFile(fs, BuiltManifest)
    /\ Len(fs.files[BuiltManifest].doc["wheels"]) = 3
    /\ "wheels" \in DOMAIN fs.files[Manifest].doc
    /\ \E w \in GlobWhl(fs, Wheels(build_dir)) : fs.files[w] = Whl("x1")

----------------------------------------------------------------------------
(* batoms_proxy/batoms/__init__.py: the proxy object that stands for the   *)
(* batoms module, used while the host's add-ons are enabled and disabled.  *)

UserBatoms == <<"bl_ext", ".", "user_default", ".", "batoms">>

OtherBatoms == <<"bl_ext", ".", "other", ".", "batoms">>

LegacyBatoms == <<"batoms">>

MyBatoms == <<"bl_ext", ".", "user_default", ".", "mybatoms">>

AddonNames == {UserBatoms, OtherBatoms, LegacyBatoms, MyBatoms}

\* addon_utils.modules() with addon_utils.check(name)[1] of each add-on
Registries == UNION {[S -> BOOLEAN] : S \in SUBSET AddonNames}

EndsWith(name, suffix) ==
    /\ Len(name) >= Len(suffix)
    /\ SubSeq(name, Len(name) - Len(suffix) + 1, Len(name)) = suffix

Found(name) == [err |-> "ok", name |-> name]

NotFound == [err |-> "ImportError", name |-> <<>>]

\* a lookup that does not ask whether the add-on is enabled
find_extension_module_any_state(reg, extension_name) ==
    LET possible_modules ==
            {n \in DOMAIN reg : EndsWith(n, <<".", extension_name>>)}
    IN IF DOMAIN reg = {} THEN NotFound
       ELSE IF possible_modules = {} THEN NotFound
       ELSE IF Cardinality(possible_modules) > 1 THEN NotFound
       ELSE Found(CHOOSE n \in possible_modules : TRUE)

find_extension_module(reg, extension_name) ==
    LET possible_modules ==
            {n \in DOMAIN reg : EndsWith(n, <<".", extension_name>>) /\ reg[n]}
    IN IF DOMAIN reg = {} THEN NotFound
       ELSE IF possible_modules = {} THEN NotFound
       ELSE IF Cardinality(possible_modules) > 1 THEN NotFound
       ELSE Found(CHOOSE n \in possible_modules : TRUE)

Loaded(err, prx, queried) == [err |-> err, proxy |-> prx, queried |-> queried]

\* a _load_module that resolves the module anew at every use
load_module_uncached(prx, reg, extension_name) ==
    LET r == find_extension_module(reg, extension_name)
    IN IF r.err = "ok"
       THEN Loaded("ok", [module |-> r.name, resolved_name |-> r.name], TRUE)
       ELSE Loaded(r.err, prx, TRUE)

\* importlib.import_module(module_name) gives the module of that name
load_module(prx, reg, extension_name) ==
    IF prx.module # <<>> THEN Loaded("ok", prx, FALSE)
    ELSE LET r == find_extension_module(reg, extension_name)
         IN IF r.err = "ok"
            THEN Loaded("ok", [module |-> r.name, resolved_name |-> r.name], TRUE)
            ELSE Loaded(r.err, prx, TRUE)

ForwardOps == {"__getattr__", "__dir__", "__call__"}

Result(op, err, target) == [op |-> op, err |-> err, target |-> target]

\* the uses of the proxy so far (the registry queries are in the trace too)
Uses(t) == Cardinality({i \in 1..Len(t) : t[i].call # "addon_utils.modules"})

InitProxy ==
    /\ registry \in Registries
    /\ proxy = Unresolved
    /\ argv = [extension_name |-> "batoms"]
    /\ fs = EmptyFS
    /\ host = [system |-> "Linux", machine |-> "x86_64"]
    /\ pc = "call"
    /\ ret = Result("none", "none", <<>>)
    /\ trace = <<>>
    /\ snap = <<>>
    /\ pip = "none"
    /\ status = "running"
    /\ built = {}

\* __getattr__, __dir__, __call__: _load_module, then the operation on _module
Forward ==
    /\ pc = "call"
    /\ Uses(trace) < MaxCalls
    /\ \E op \in ForwardOps :
          LET r == load_module(proxy, registry, argv.extension_name)
              q == IF r.queried THEN <<Call("addon_utils.modules", "ok")>> ELSE <<>>
          IN /\ proxy' = r.proxy
             /\ trace' = trace \o q \o <<Call(op, r.err)>>
             /\ ret' = Result(op, r.err, IF r.err = "ok" THEN r.proxy.module ELSE <<>>)
    /\ UNCHANGED <<fs, argv, host, pc, snap, pip, status, built, registry>>

\* __repr__ reads _resolved_name and loads nothing
Repr ==
    /\ pc = "call"
    /\ Uses(trace) < MaxCalls
    /\ trace' = Append(trace, Call("__repr__", "ok"))
    /\ ret' = Result("__repr__", "ok", proxy.resolved_name)
    /\ UNCHANGED <<fs, argv, host, pc, snap, pip, status, built, registry, proxy>>

\* the user enables or disables an add-on in the host's preferences
ToggleAddon ==
    /\ pc = "call"
    /\ \E n \in DOMAIN registry : registry' = [registry EXCEPT ![n] = ~@]
    /\ UNCHANGED <<fs, argv, host, pc, snap, pip, ret, trace, status, built, proxy>>

NextProxy == Forward \/ Repr \/ ToggleAddon

SpecProxy == InitProxy /\ [][NextProxy]_vars

\* the step is a forwarded operation of the proxy
IsForward == trace' # trace /\ Last(trace').call \in ForwardOps

Queries(t) == Cardinality({i \in 1..Len(t) : t[i].call = "addon_utils.modules"})

\* the enabled add-ons of the registry named <something>.batoms
EnabledBatoms(reg) ==
    {n \in DOMAIN reg :
        /\ reg[n]
        /\ Len(n) >= 2
        /\ n[Len(n)] = "batoms"
        /\ n[Len(n) - 1] = "."}

\* C11: a lookup by an unresolved proxy succeeds exactly when one enabled add-on
\* of the registry has a name ending in ".batoms", and the proxy then holds that
\* add-on's module; with none or several it raises ImportError and the proxy
\* stays unresolved.
C11_ExactlyOneEnabledMatch ==
    [][(IsForward /\ proxy = Unresolved) =>
          IF Cardinality(EnabledBatoms(registry)) = 1
          THEN /\ ret'.err = "ok"
               /\ proxy'.module \in EnabledBatoms(registry)
               /\ proxy'.resolved_name = proxy'.module
               /\ ret'.target = proxy'.module
          ELSE /\ ret'.err = "ImportError"
               /\ proxy' = Unresolved]_vars

\* resolved to the one enabled extension although another one is installed
\* (disabled) and the legacy add-on "batoms" is enabled
C11_Witness ==
    /\ proxy.module = UserBatoms
    /\ DOMAIN registry = AddonNames
    /\ registry[UserBatoms]
    /\ ~registry[OtherBatoms]
    /\ registry[LegacyBatoms]
    /\ registry[MyBatoms]
    /\ Uses(trace) = 1

\* C14: the proxy starts unresolved; the registry is queried, and the proxy
\* changed, only by a forwarded operation of an unresolved proxy; once resolved,
\* every forwarded operation goes to the module it holds without a query, and the
\* proxy keeps that module whatever is enabled or disabled afterwards.
C14_LazyAndCached ==
    [][/\ (Queries(trace) = 0 => proxy = Unresolved)
       /\ ~IsForward => (proxy' = proxy /\ Queries(trace') = Queries(trace))
       /\ proxy # Unresolved =>
             /\ proxy' = proxy
             /\ Queries(trace') = Queries(trace)
             /\ IsForward => (ret'.err = "ok" /\ ret'.target = proxy.module)]_vars

\* used again after the resolved add-on was disabled and another one enabled
C14_Witness ==
    /\ proxy.module = UserBatoms
    /\ UserBatoms \in DOMAIN registry /\ ~registry[UserBatoms]
    /\ OtherBatoms \in DOMAIN registry /\ registry[OtherBatoms]
    /\ Queries(trace) = 1
    /\ Uses(trace) = 2
    /\ Last(trace).call = "__call__"
    /\ ret = Result("__call__", "ok", UserBatoms)

====
